---- MODULE Spec2Model ----
(***************************************************************************)
(* Model of chainer.training.triggers.once_trigger.OnceTrigger.            *)
(*                                                                         *)
(* One trigger object: its two flags, the constructor argument it was      *)
(* built with, and the history of the calls made on it (trigger, the       *)
(* finished property, serialize) with what each call was given and what    *)
(* it returned.  A second trigger object (the twin), constructed with the   *)
(* same argument, is there to compare two objects driven by the same calls *)
(* with different trainer arguments; the single-object specification never *)
(* calls it.  The serializer handed to serialize is external: it is        *)
(* drawn from every function of (key, value) to a boolean, which covers a  *)
(* writer (returns the value it is passed) and a reader (returns the saved *)
(* value whatever it is passed).                                           *)
(***************************************************************************)
EXTENDS Naturals, Sequences, FiniteSets

VARIABLES _flag_first, _flag_resumed, call_on_resume, log,
          twin_flag_first, twin_flag_resumed, twin_log

twin_vars == <<twin_flag_first, twin_flag_resumed, twin_log>>

vars == <<_flag_first, _flag_resumed, call_on_resume, log,
          twin_flag_first, twin_flag_resumed, twin_log>>

(* Bound on the number of calls made on the trigger. *)
MaxCalls == 5

(* The trainer objects a caller may pass to trigger. *)
Trainers == {"trainer_a", "trainer_b"}

(* The keys an external serializer can be called with. *)
Keys == {"_flag_first", "_flag_resumed"}

(* Every serializer callback: (key, current value) -> bool. *)
Serializers == [Keys \X BOOLEAN -> BOOLEAN]

NoTrainer == "none"
NoKey == "none"

(* -------- OnceTrigger ---------------------------------------------------*)

(* __init__: self._flag_first = True *)
init_flag_first == TRUE

(* Variant: the constructor argument is dropped. *)
init_flag_resumed_dropped(arg) == FALSE

(* __init__: self._flag_resumed = call_on_resume *)
init_flag_resumed(arg) == arg

(* Variant: finished uses "and" where the code uses "or". *)
finished_and(ff, fr) == ~(ff /\ fr)

(* Variant: finished looks at _flag_first only. *)
finished_first_only(ff, fr) == ~ff

(* property finished: not (self._flag_first or self._flag_resumed) *)
finished(ff, fr) == ~(ff \/ fr)

(* Variant: trigger leaves _flag_resumed as it is. *)
trigger_flag_resumed_kept(fr) == fr

(* trigger: self._flag_resumed = False *)
trigger_flag_resumed(fr) == FALSE

(* Variant: trigger leaves _flag_first as it is. *)
trigger_flag_first_kept(ff) == ff

(* trigger: self._flag_first = False *)
trigger_flag_first(ff) == FALSE

(* Variant: the returned flag is computed after the two flags are cleared. *)
trigger_flag_after_clear(ff, fr) ==
    ~finished(trigger_flag_first(ff), trigger_flag_resumed(fr))

(* trigger: flag = not self.finished, taken from the flags before they are
   cleared *)
trigger_flag(ff, fr) == ~finished(ff, fr)

(* serialize: the key the serializer is called with *)
serialize_key == "_flag_first"

(* Variant: the serializer is handed _flag_resumed. *)
serialize_value_resumed(ff, fr) == fr

(* serialize: the value the serializer is called with *)
serialize_value(ff, fr) == ff

(* serialize: the call serializer('_flag_first', self._flag_first) and the
   value it gives back *)
serializer_call(serializer, ff, fr) ==
    serializer[<<serialize_key, serialize_value(ff, fr)>>]

(* Variant: the serializer's result is thrown away. *)
serialize_flag_first_kept(serializer, ff, fr) == ff

(* serialize: self._flag_first = <the serializer's result> *)
serialize_flag_first(serializer, ff, fr) == serializer_call(serializer, ff, fr)

(* Variant: serialize persists _flag_resumed as well. *)
serialize_flag_resumed_persisted(serializer, ff, fr) ==
    serializer[<<"_flag_resumed", fr>>]

(* serialize assigns nothing to self._flag_resumed *)
serialize_flag_resumed(serializer, ff, fr) == fr

Call(op, trainer, key, value, ret) ==
    [op |-> op, trainer |-> trainer, key |-> key, value |-> value, ret |-> ret]

Init ==
    /\ call_on_resume \in BOOLEAN
    /\ _flag_first = init_flag_first
    /\ _flag_resumed = init_flag_resumed(call_on_resume)
    /\ log = <<>>
    /\ twin_flag_first = init_flag_first
    /\ twin_flag_resumed = init_flag_resumed(call_on_resume)
    /\ twin_log = <<>>

(* Variant: trigger clears _flag_first only for one of the trainers. *)
Trigger_reads_trainer(trainer) ==
    /\ Len(log) < MaxCalls
    /\ _flag_resumed' = trigger_flag_resumed(_flag_resumed)
    /\ _flag_first' = IF trainer = "trainer_a"
                      THEN trigger_flag_first(_flag_first)
                      ELSE _flag_first
    /\ log' = Append(log, Call("trigger", trainer, NoKey, FALSE,
                               trigger_flag(_flag_first, _flag_resumed)))
    /\ UNCHANGED call_on_resume

Trigger(trainer) ==
    /\ Len(log) < MaxCalls
    /\ _flag_resumed' = trigger_flag_resumed(_flag_resumed)
    /\ _flag_first' = trigger_flag_first(_flag_first)
    /\ log' = Append(log, Call("trigger", trainer, NoKey, FALSE,
                               trigger_flag(_flag_first, _flag_resumed)))
    /\ UNCHANGED call_on_resume

Finished ==
    /\ Len(log) < MaxCalls
    /\ log' = Append(log, Call("finished", NoTrainer, NoKey, FALSE,
                               finished(_flag_first, _flag_resumed)))
    /\ UNCHANGED <<_flag_first, _flag_resumed, call_on_resume>>

Serialize(serializer) ==
    /\ Len(log) < MaxCalls
    /\ _flag_first' = serialize_flag_first(serializer, _flag_first, _flag_resumed)
    /\ _flag_resumed' = serialize_flag_resumed(serializer, _flag_first, _flag_resumed)
    /\ log' = Append(log, Call("serialize", NoTrainer, serialize_key,
                               serialize_value(_flag_first, _flag_resumed),
                               serializer_call(serializer, _flag_first,
                                               _flag_resumed)))
    /\ UNCHANGED call_on_resume

Next ==
    \/ \E trainer \in Trainers : Trigger(trainer) /\ UNCHANGED twin_vars
    \/ Finished /\ UNCHANGED twin_vars
    \/ \E serializer \in Serializers :
           Serialize(serializer) /\ UNCHANGED twin_vars

Spec == Init /\ [][Next]_vars

(* -------- Two trigger objects driven by the same calls -------------------*)

(* trigger on the twin object *)
TwinTrigger(trainer) ==
    /\ twin_flag_resumed' = trigger_flag_resumed(twin_flag_resumed)
    /\ twin_flag_first' = trigger_flag_first(twin_flag_first)
    /\ twin_log' = Append(twin_log,
                          Call("trigger", trainer, NoKey, FALSE,
                               trigger_flag(twin_flag_first, twin_flag_resumed)))

(* finished read on the twin object *)
TwinFinished ==
    /\ twin_log' = Append(twin_log,
                          Call("finished", NoTrainer, NoKey, FALSE,
                               finished(twin_flag_first, twin_flag_resumed)))
    /\ UNCHANGED <<twin_flag_first, twin_flag_resumed>>

(* serialize on the twin object *)
TwinSerialize(serializer) ==
    /\ twin_flag_first' =
           serialize_flag_first(serializer, twin_flag_first, twin_flag_resumed)
    /\ twin_flag_resumed' =
           serialize_flag_resumed(serializer, twin_flag_first, twin_flag_resumed)
    /\ twin_log' = Append(twin_log,
                          Call("serialize", NoTrainer, serialize_key,
                               serialize_value(twin_flag_first, twin_flag_resumed),
                               serializer_call(serializer, twin_flag_first,
                                               twin_flag_resumed)))

(* The same call is made on both objects; a trigger call is given any
   trainer on each of them. *)
PairNext ==
    \/ \E trainer \in Trainers : \E twin_trainer \in Trainers :
           Trigger(trainer) /\ TwinTrigger(twin_trainer)
    \/ Finished /\ TwinFinished
    \/ \E serializer \in Serializers :
           Serialize(serializer) /\ TwinSerialize(serializer)

PairSpec == Init /\ [][PairNext]_vars

(* -------- Reading the call history --------------------------------------*)

Idx == 1..Len(log)

TriggerIdx == {i \in Idx : log[i].op = "trigger"}

FinishedIdx == {i \in Idx : log[i].op = "finished"}

SerializeIdx == {i \in Idx : log[i].op = "serialize"}

(* The greatest element of a non-empty set of positions. *)
Last(S) == CHOOSE k \in S : \A m \in S : m <= k

IsFirstTrigger(i) == i \in TriggerIdx /\ \A j \in TriggerIdx : i <= j

(* Position of the trigger call made before position i, 0 when there is none. *)
PrevTrigger(i) ==
    IF \E j \in TriggerIdx : j < i
    THEN Last({j \in TriggerIdx : j < i})
    ELSE 0

(* The serialize calls made before position i and after the trigger call
   that precedes i (after construction when no trigger call precedes i). *)
SerializesSince(i) == {k \in SerializeIdx : PrevTrigger(i) < k /\ k < i}

(* The value the serializer returned in the latest serialize call before
   position i and after the preceding trigger call, FALSE when there was no
   such serialize call. *)
RestoredTrue(i) ==
    /\ SerializesSince(i) # {}
    /\ log[Last(SerializesSince(i))].ret = TRUE

(* Number of trigger calls that returned True. *)
TrueCount == Cardinality({i \in TriggerIdx : log[i].ret = TRUE})

(* Number of serialize calls whose serializer returned True. *)
RestoreTrueCount == Cardinality({k \in SerializeIdx : log[k].ret = TRUE})

(* Every serialize call so far got back the value it passed (a save). *)
OnlySaves == \A k \in SerializeIdx : log[k].ret = log[k].value

(* -------- Claims --------------------------------------------------------*)

(* C1: on a trigger constructed with call_on_resume=False on which only
   trigger is called (and finished is read), the first trigger call returns
   True and every later one False; finished is False before the first
   trigger call and True in every state after it. *)
C1_FreshDefault ==
    (call_on_resume = FALSE /\ SerializeIdx = {}) =>
        /\ \A i \in TriggerIdx : log[i].ret = IsFirstTrigger(i)
        /\ \A i \in FinishedIdx : log[i].ret = (PrevTrigger(i) # 0)
        /\ finished(_flag_first, _flag_resumed) = (TriggerIdx # {})

C1_Witness ==
    /\ call_on_resume = FALSE
    /\ Len(log) = 4
    /\ log[1].op = "finished" /\ log[1].ret = FALSE
    /\ log[2].op = "trigger" /\ log[2].ret = TRUE
    /\ log[3].op = "trigger" /\ log[3].ret = FALSE
    /\ log[4].op = "finished" /\ log[4].ret = TRUE

(* C2 as stated: on a trigger constructed with call_on_resume=True, in every
   sequence of trigger and serialize calls the first trigger call returns
   True and every trigger call after the first returns False. *)
C2_Original ==
    call_on_resume = TRUE =>
        \A i \in TriggerIdx : log[i].ret = IsFirstTrigger(i)

(* C2 amended: on a trigger constructed with call_on_resume=True the first
   trigger call returns True whatever was restored before it, and a trigger
   call after the first returns True exactly when the latest serialize call
   made since the previous trigger call got True from its serializer (False
   when there was no such call or it got False). *)
C2_ResumeTrue ==
    call_on_resume = TRUE =>
        \A i \in TriggerIdx :
            log[i].ret = IF IsFirstTrigger(i) THEN TRUE ELSE RestoredTrue(i)

C2_Witness ==
    /\ call_on_resume = TRUE
    /\ Len(log) = 5
    /\ log[1].op = "serialize" /\ log[1].ret = FALSE
    /\ log[2].op = "trigger" /\ log[2].ret = TRUE
    /\ log[3].op = "trigger" /\ log[3].ret = FALSE
    /\ log[4].op = "serialize" /\ log[4].ret = TRUE
    /\ log[5].op = "trigger" /\ log[5].ret = TRUE

(* C3: in the state right after any trigger call, whatever it returned,
   _flag_first and _flag_resumed are both False and finished is True. *)
C3_AfterTrigger ==
    (Len(log) > 0 /\ log[Len(log)].op = "trigger") =>
        /\ _flag_first = FALSE
        /\ _flag_resumed = FALSE
        /\ finished(_flag_first, _flag_resumed) = TRUE

C3_Witness ==
    /\ call_on_resume = TRUE
    /\ Len(log) = 4
    /\ log[1].op = "trigger" /\ log[1].ret = TRUE
    /\ log[2].op = "serialize" /\ log[2].ret = FALSE
    /\ log[3].op = "finished"
    /\ log[4].op = "trigger" /\ log[4].ret = FALSE
    /\ finished(_flag_first, _flag_resumed)

(* C4 as stated: once trigger has been called, finished is True in every
   state reached by any further trigger and serialize calls. *)
C4_Original ==
    TriggerIdx # {} => finished(_flag_first, _flag_resumed) = TRUE

(* C4 amended: once trigger has been called, finished is True in every
   later state except those where the latest serialize call made since the
   last trigger call got True from its serializer; there finished is False
   until the next trigger call. *)
C4_FinishedUntilRestore ==
    TriggerIdx # {} =>
        finished(_flag_first, _flag_resumed) = ~RestoredTrue(Len(log) + 1)

C4_Witness ==
    /\ Len(log) = 4
    /\ log[1].op = "trigger"
    /\ log[2].op = "serialize" /\ log[2].ret = TRUE
    /\ log[3].op = "serialize" /\ log[3].ret = FALSE
    /\ log[4].op = "trigger"
    /\ finished(_flag_first, _flag_resumed)

(* C5 as stated: with call_on_resume=False trigger returns True on the
   first trigger call and on no other; with call_on_resume=True trigger
   returns True at most twice. *)
C5_Original ==
    /\ call_on_resume = FALSE =>
           \A i \in TriggerIdx : log[i].ret = IsFirstTrigger(i)
    /\ call_on_resume = TRUE => TrueCount <= 2

(* C5 amended: for either constructor argument, trigger returns True at
   most once more than the number of serialize calls whose serializer
   returned True; and while every serialize call got back the value it
   passed, trigger returns True on the first trigger call and on no other. *)
C5_TrueCount ==
    /\ TrueCount <= 1 + RestoreTrueCount
    /\ OnlySaves => \A i \in TriggerIdx : log[i].ret = IsFirstTrigger(i)

C5_Witness ==
    /\ call_on_resume = TRUE
    /\ Len(log) = 5
    /\ TrueCount = 3
    /\ RestoreTrueCount = 2

(* C6 as stated: on a new trigger (either constructor argument) with no
   trigger call yet, restoring True and then calling trigger returns True,
   and restoring False and then calling trigger returns False. *)
C6_Original ==
    \A i \in TriggerIdx :
        (IsFirstTrigger(i) /\ SerializesSince(i) # {}) =>
            log[i].ret = log[Last(SerializesSince(i))].ret

(* C6 amended: on a new trigger with no trigger call yet, restoring True and
   then calling trigger returns True; restoring False and then calling
   trigger returns False when the trigger was constructed with
   call_on_resume=False and True when it was constructed with
   call_on_resume=True. *)
C6_RoundTrip ==
    \A i \in TriggerIdx :
        (IsFirstTrigger(i) /\ SerializesSince(i) # {}) =>
            log[i].ret = (log[Last(SerializesSince(i))].ret \/ call_on_resume)

C6_Witness ==
    /\ call_on_resume = TRUE
    /\ Len(log) = 2
    /\ log[1].op = "serialize" /\ log[1].value = TRUE /\ log[1].ret = FALSE
    /\ log[2].op = "trigger" /\ log[2].ret = TRUE

(* A serialize call after position i that got back something other than the
   value it passed (a restore that changed the trigger) happened before
   position j. *)
RestoreBetween(i, j) ==
    \E k \in SerializeIdx : i < k /\ k < j /\ log[k].ret # log[k].value

(* C7: when the snapshot of a trigger that has already fired (saved
   _flag_first False) is restored into a new trigger before any trigger
   call, the first trigger call returns True if the trigger was constructed
   with call_on_resume=True and False if with call_on_resume=False; every
   later trigger call with no further restore returns False. *)
C7_Resume ==
    \A i \in TriggerIdx :
        (/\ IsFirstTrigger(i)
         /\ SerializesSince(i) # {}
         /\ log[Last(SerializesSince(i))].ret = FALSE) =>
            /\ log[i].ret = call_on_resume
            /\ \A j \in TriggerIdx :
                   (i < j /\ ~RestoreBetween(i, j)) => log[j].ret = FALSE

C7_Witness ==
    /\ call_on_resume = TRUE
    /\ Len(log) = 5
    /\ log[1].op = "serialize" /\ log[1].ret = FALSE
    /\ log[2].op = "trigger" /\ log[2].ret = TRUE
    /\ log[3].op = "serialize" /\ log[3].ret = FALSE
    /\ log[4].op = "trigger" /\ log[4].ret = FALSE
    /\ log[5].op = "trigger" /\ log[5].ret = FALSE

(* C8: a serialize call, from any reachable state and with any serializer,
   leaves _flag_resumed unchanged, calls the serializer with the key
   '_flag_first' and the current _flag_first, and sets _flag_first to exactly
   what the serializer returns; so until the first trigger call
   _flag_resumed is the trigger's own constructor argument whatever was
   restored. *)
C8_SerializeFrame ==
    /\ [](TriggerIdx = {} => _flag_resumed = call_on_resume)
    /\ [][\A serializer \in Serializers :
              Serialize(serializer) =>
                  /\ _flag_resumed' = _flag_resumed
                  /\ log'[Len(log')].key = "_flag_first"
                  /\ log'[Len(log')].value = _flag_first
                  /\ log'[Len(log')].ret = serializer[<<"_flag_first", _flag_first>>]
                  /\ _flag_first' = serializer[<<"_flag_first", _flag_first>>]]_vars

C8_Witness ==
    /\ call_on_resume = TRUE
    /\ Len(log) = 2
    /\ log[1].op = "serialize" /\ log[1].value = TRUE /\ log[1].ret = FALSE
    /\ log[2].op = "serialize" /\ log[2].value = FALSE /\ log[2].ret = TRUE
    /\ _flag_first = TRUE
    /\ _flag_resumed = TRUE

(* C9: from any reachable state, of two or more trigger calls with no
   serialize call between them only the first can return True; every later
   one returns False, also when the first returned False. *)
C9_Consecutive ==
    \A i \in TriggerIdx : \A j \in TriggerIdx :
        (i < j /\ ~\E k \in SerializeIdx : i < k /\ k < j) =>
            log[j].ret = FALSE

C9_Witness ==
    /\ call_on_resume = FALSE
    /\ Len(log) = 4
    /\ log[1].op = "serialize" /\ log[1].ret = FALSE
    /\ log[2].op = "trigger" /\ log[2].ret = FALSE
    /\ log[3].op = "trigger" /\ log[3].ret = FALSE
    /\ log[4].op = "trigger" /\ log[4].ret = FALSE

(* C10: a trigger call that is not the first one returns True only if a
   serialize call whose serializer returned True was made since the previous
   trigger call; with trigger calls and finished reads alone no later
   trigger call returns True. *)
C10_RearmOnlyBySerialize ==
    /\ \A j \in TriggerIdx :
           (~IsFirstTrigger(j) /\ log[j].ret = TRUE) =>
               \E k \in SerializesSince(j) : log[k].ret = TRUE
    /\ SerializeIdx = {} =>
           \A j \in TriggerIdx : ~IsFirstTrigger(j) => log[j].ret = FALSE

C10_Witness ==
    /\ Len(log) = 5
    /\ log[1].op = "trigger" /\ log[1].ret = TRUE
    /\ log[2].op = "finished" /\ log[2].ret = TRUE
    /\ log[3].op = "serialize" /\ log[3].ret = TRUE
    /\ log[4].op = "finished" /\ log[4].ret = FALSE
    /\ log[5].op = "trigger" /\ log[5].ret = TRUE

(* C11: finished is a derived, read-only accessor: in every reachable state
   reading it gives not (_flag_first or _flag_resumed), that is True exactly
   when both flags are False, and the read changes neither flag. *)
C11_FinishedReadOnly ==
    [][Finished =>
           /\ log'[Len(log')].ret = ~(_flag_first \/ _flag_resumed)
           /\ log'[Len(log')].ret = (_flag_first = FALSE /\ _flag_resumed = FALSE)
           /\ _flag_first' = _flag_first
           /\ _flag_resumed' = _flag_resumed]_vars

C11_Witness ==
    /\ call_on_resume = TRUE
    /\ Len(log) = 4
    /\ log[1].op = "serialize" /\ log[1].ret = FALSE
    /\ log[2].op = "finished" /\ log[2].ret = FALSE
    /\ log[3].op = "trigger"
    /\ log[4].op = "finished" /\ log[4].ret = TRUE
    /\ _flag_first = FALSE
    /\ _flag_resumed = FALSE

(* C13 as stated: in no step of trigger, finished or serialize does
   _flag_first or _flag_resumed change from False to True. *)
C13_Original ==
    [][/\ (_flag_first = FALSE => _flag_first' = FALSE)
       /\ (_flag_resumed = FALSE => _flag_resumed' = FALSE)]_vars

(* C13 amended: _flag_resumed never changes from False to True in any step,
   and _flag_first changes from False to True only in a serialize step whose
   serializer returned True; trigger and finished never set either flag
   from False to True. *)
C13_MonotonicButRestore ==
    [][/\ (_flag_resumed = FALSE => _flag_resumed' = FALSE)
       /\ (_flag_first = FALSE /\ _flag_first' = TRUE) =>
              /\ log'[Len(log')].op = "serialize"
              /\ log'[Len(log')].ret = TRUE]_vars

C13_Witness ==
    /\ call_on_resume = TRUE
    /\ Len(log) = 2
    /\ log[1].op = "trigger" /\ log[1].ret = TRUE
    /\ log[2].op = "serialize" /\ log[2].value = FALSE /\ log[2].ret = TRUE
    /\ _flag_first = TRUE
    /\ _flag_resumed = FALSE

(* C14: trigger returns exactly the negation of the value finished had just
   before the call (True iff _flag_first or _flag_resumed was True in the
   state the call was made in); the flags are cleared after that value is
   taken, so the result is never computed from the cleared flags. *)
C14_ReturnsNotFinished ==
    [][\A trainer \in Trainers :
           Trigger(trainer) =>
               /\ log'[Len(log')].ret = (_flag_first \/ _flag_resumed)
               /\ (Len(log) > 0 /\ log[Len(log)].op = "finished") =>
                      log'[Len(log')].ret = ~log[Len(log)].ret]_vars

C14_Witness ==
    /\ call_on_resume = TRUE
    /\ Len(log) = 3
    /\ log[1].op = "serialize" /\ log[1].ret = FALSE
    /\ log[2].op = "finished" /\ log[2].ret = FALSE
    /\ log[3].op = "trigger" /\ log[3].ret = TRUE
    /\ _flag_first = FALSE
    /\ _flag_resumed = FALSE

(* Every serialize call made before position i and after the trigger call
   that precedes i got back the value it passed. *)
OnlySavesSince(i) ==
    \A k \in SerializesSince(i) : log[k].ret = log[k].value

(* C15: a serialize call whose serializer gives back the value it is passed
   (a save) leaves both flags unchanged in every reachable state; so saves,
   repeated or made between two trigger calls, change no trigger result and
   no finished value: these are what they are with no serialize call. *)
C15_SaveNoEffect ==
    /\ [][\A serializer \in Serializers :
              (/\ Serialize(serializer)
               /\ serializer[<<"_flag_first", _flag_first>>] = _flag_first) =>
                  /\ _flag_first' = _flag_first
                  /\ _flag_resumed' = _flag_resumed]_vars
    /\ [](\A i \in TriggerIdx :
              OnlySavesSince(i) =>
                  log[i].ret = IsFirstTrigger(i))
    /\ [](\A i \in FinishedIdx :
              OnlySavesSince(i) =>
                  log[i].ret = (PrevTrigger(i) # 0))

C15_Witness ==
    /\ call_on_resume = TRUE
    /\ Len(log) = 5
    /\ log[1].op = "serialize" /\ log[1].value = TRUE /\ log[1].ret = TRUE
    /\ log[2].op = "trigger" /\ log[2].ret = TRUE
    /\ log[3].op = "serialize" /\ log[3].value = FALSE /\ log[3].ret = FALSE
    /\ log[4].op = "serialize" /\ log[4].value = FALSE /\ log[4].ret = FALSE
    /\ log[5].op = "trigger" /\ log[5].ret = FALSE

(* C12: the result of trigger and the state after it do not depend on the
   trainer argument: two triggers constructed alike and driven by the same
   sequence of trigger, finished and serialize calls, with any trainer
   arguments, return the same value from every call and are in the same
   state. *)
C12_TrainerIndependent ==
    /\ twin_flag_first = _flag_first
    /\ twin_flag_resumed = _flag_resumed
    /\ Len(twin_log) = Len(log)
    /\ \A i \in Idx :
           /\ twin_log[i].op = log[i].op
           /\ twin_log[i].ret = log[i].ret

C12_Witness ==
    /\ Len(log) = 4
    /\ log[1].op = "trigger" /\ log[1].ret = TRUE
    /\ log[1].trainer = "trainer_a" /\ twin_log[1].trainer = "trainer_b"
    /\ log[2].op = "serialize" /\ log[2].ret = TRUE
    /\ log[3].op = "trigger" /\ log[3].ret = TRUE
    /\ log[3].trainer = "trainer_b" /\ twin_log[3].trainer = "trainer_a"
    /\ log[4].op = "trigger" /\ log[4].ret = FALSE
    /\ log[4].trainer = "trainer_b" /\ twin_log[4].trainer = "trainer_b"

====
